---- MODULE Spec2Model ----
(***************************************************************************)
(* Model of the postgres package of go-gorm-unit-of-work:                  *)
(*   - transactionContext (Begin / Provider / Commit / Rollback),          *)
(*     src/postgres/transaction_context.go lines 1..243                    *)
(*   - the DatabaseHolder singleton (NewDBHolderInstance, sync.Once),      *)
(*     src/unnamed/part_001                                                *)
(*   - Open / NewConnect, src/postgres/transaction_context.go 244..328     *)
(*                                                                         *)
(* A *gorm.DB value is a record [kind, n]: kind "db" is the holder's       *)
(* connection (n = the configuration it was opened with), kind "tx" is the *)
(* n-th handle returned by dbConnection.Begin().  A Go pointer is a        *)
(* sequence: <<>> is nil, <<v>> points to v.  An error is a string, "nil"  *)
(* is the nil error.                                                       *)
(***************************************************************************)
EXTENDS Integers, Sequences, FiniteSets, TLC

VARIABLES
    tx,               \* transactionContext.tx: <<>> or <<handle>>
    transactionUUID,  \* transactionContext.transactionUUID: <<>> or <<uuid>>
    rollbacked,       \* transactionContext.rollbacked
    nextId,           \* number of the next uuid uuid.NewRandom() hands out
    txs,              \* the handles dbConnection.Begin() returned, with the calls made on each
    last,             \* the last call made on the context: arguments, results, state before
    hist,             \* which tokens Begin returned for which transaction (history)
    dbAns,            \* what the database answered the last call: <<>> when it was not asked
    stack,            \* call chain of functions following the doc example's pattern
    chainOk,          \* the database and the uuid source have not failed in the call chain
    hpc,              \* NewDBHolderInstance: each thread's position
    hconn,            \* NewDBHolderInstance: the local connect of each thread: <<>> or <<handle>>
    hret,             \* NewDBHolderInstance: the values each thread's calls returned
    hcalls,           \* NewDBHolderInstance: calls each thread has made
    onceDone,         \* onceDBHolder.done
    onceM,            \* onceDBHolder.m: 0 when free, else the thread holding it
    dbHolder,         \* the package variable dbHolder: <<>> or <<DatabaseHolder>>
    retry,            \* Open: the loop counter
    opened,           \* connections gorm.Open has opened successfully
    initBy,           \* threads whose initializer (the func given to Do) ran
    hslow,            \* threads that found done = 0 and went for the mutex
    fatal,            \* logger.Fatalf was reached: the process is gone
    openLog,          \* Open: what the loop has done: "fail", "sleep", "ok"
    openRet,          \* Open: <<>> until it returns, then <<[db, err]>>
    ambient,          \* the context.Context values made so far; 1 is context.Background()
    txcs,             \* the transactionContext objects newTransactionContext has made
    lastGet           \* the last call of GetTransactionContext: argument, results, state before

ctxVars == <<tx, transactionUUID, rollbacked, nextId, txs, last, hist, dbAns>>
chainVars == <<stack, chainOk>>
holderVars == <<hpc, hconn, hret, hcalls, onceDone, onceM, dbHolder, retry, opened, initBy, hslow, fatal,
               openLog, openRet>>
ambVars == <<ambient, txcs, lastGet>>
vars == <<ctxVars, chainVars, holderVars, ambVars>>

----------------------------------------------------------------------------
(* Bounds *)

\* uuids uuid.NewRandom() may hand out in one behaviour
MaxTokens == 4
\* nesting depth of the call chain
MaxDepth == 3
\* threads calling NewDBHolderInstance
NThreads == 2
\* calls of NewDBHolderInstance per thread
MaxCalls == 2
\* context.Context values derived from context.Background()
MaxCtx == 4

----------------------------------------------------------------------------
(* Values *)

\* uuid.Nil, the zero value of the named result id
NilUUID == 0

ErrTxWasRollbacked == "the transaction has been rollbacked"
ErrNotInTransaction == "not in a transaction, Begin() has not been called"
\* the error of a failing uuid.NewRandom()
ErrRandom == "uuid: random source failed"
\* what gorm adds to a handle that holds no sql transaction
ErrInvalidTransaction == "no valid transaction"
\* errors the database may answer a Begin, Commit or Rollback with
DbErrors == {"db error A", "db error B"}
DbResults == {"nil"} \cup DbErrors

\* tokens a caller may pass to Commit: uuid.Nil, every uuid handed out, one never handed out
Tokens == 0..(MaxTokens + 1)

TxHandle(n) == [kind |-> "tx", n |-> n]
ConnHandle(cfg) == [kind |-> "db", n |-> cfg]

\* the configuration in the package variable DbConfig
DbConfig == 1

\* defaultConnectionNumberOfRetries defines the maximum number of connection retries
defaultConnectionNumberOfRetries == 8

----------------------------------------------------------------------------
(* transactionContext: helpers *)

\* every token Begin has returned for the transaction in flight or an earlier one
Returned(h) == (IF h.opener = NilUUID THEN {} ELSE {h.opener}) \cup h.nested \cup h.old

\* the transaction is over: its tokens belong to a finalized transaction
Finalized(h) == [opener |-> NilUUID, nested |-> {},
                 old |-> Returned(h), rolledBack |-> h.rolledBack]

\* faulty variant: the transaction in flight is not seen
inTransactionMut == FALSE

\* inTransaction checks if a transaction is currently active
inTransaction == tx # <<>> /\ transactionUUID # <<>>

\* wasRollbacked returns true if the transaction has already been rolled back
wasRollbacked == rollbacked

\* faulty variant: hands out the context's own handle, which is nil outside a transaction
providerWithoutTransactionMut == tx

\* providerWithoutTransaction returns the dbConnection of the context's dbHolder
providerWithoutTransaction == <<dbHolder[1].dbConnection>>

\* faulty variant: the ownership test is missing, every caller commits
NotOwnerMut(id) == FALSE

\* faulty variant: any token Begin has handed out passes for the owner's
NotOwnerKnownMut(id) == id \notin Returned(hist)

\* Commit's test "*c.transactionUUID != id": the caller is not the owner
NotOwner(id) == transactionUUID[1] # id

\* the states of the specification's state machine, read off the fields
StateOf(t, u, r) ==
    IF r THEN "RolledBack"
    ELSE IF t # <<>> /\ u # <<>> THEN "Active"
    ELSE IF t = <<>> /\ u = <<>> THEN "Idle"
    ELSE "Broken"

State == StateOf(tx, transactionUUID, rollbacked)

\* state before a call, kept in last.pre
Pre == [tx |-> tx, uuid |-> transactionUUID, rollbacked |-> rollbacked,
        state |-> State, hist |-> hist, txs |-> txs]

\* a call's record: op, the token passed, the error and the values returned,
\* the calls made on database handles, the state before
Call(op, arg, err, id, db, calls) ==
    [op |-> op, arg |-> arg, err |-> err, id |-> id, db |-> db,
     calls |-> calls, pre |-> Pre]


----------------------------------------------------------------------------
(* transactionContext: the operations *)

\* a call that returns before it touches the context
Refuse(op, arg, err) ==
    /\ last' = Call(op, arg, err, NilUUID, <<>>, <<>>)
    /\ dbAns' = <<>>
    /\ UNCHANGED <<tx, transactionUUID, rollbacked, nextId, txs, hist>>

\* faulty variant: the token is left behind
disposeMut ==
    /\ tx' = <<>>
    /\ UNCHANGED transactionUUID

\* dispose clears transaction data
dispose ==
    /\ tx' = <<>>
    /\ transactionUUID' = <<>>

\* faulty variant: the context is not marked
disposeAfterRollbackMut ==
    /\ UNCHANGED rollbacked
    /\ dispose

\* disposeAfterRollback marks the transaction as rolled back and disposes of it
disposeAfterRollback ==
    /\ rollbacked' = TRUE
    /\ dispose

\* variant: the stored owning token is handed to the joining caller
JoinedIdMut(id) == transactionUUID[1]

\* the id Begin returns when it joins the transaction in flight: the named result id,
\* which holds the uuid just generated (nothing assigns the stored one to it)
JoinedId(id) == id

\* Error of the handle after Commit() or Rollback() on it: a handle whose Begin failed
\* holds no sql transaction and keeps its error; otherwise the database answers
HandleError(h, dbRes) == IF txs[h].err # "nil" THEN ErrInvalidTransaction ELSE dbRes

\* the database is asked only through a handle that holds a sql transaction
Answer(h, dbRes) == IF txs[h].err # "nil" THEN <<>> ELSE <<dbRes>>

\* Begin; rnd is the error of uuid.NewRandom(), dbRes the database's answer to Begin
Begin(rnd, dbRes) ==
    IF wasRollbacked THEN Refuse("Begin", NilUUID, ErrTxWasRollbacked)
    ELSE IF rnd # "nil" THEN Refuse("Begin", NilUUID, rnd)
    ELSE IF ~inTransaction THEN
        /\ nextId' = nextId + 1
        /\ transactionUUID' = <<nextId>>
        /\ txs' = Append(txs, [err |-> dbRes, commits |-> 0, rollbacks |-> 0])
        /\ tx' = <<TxHandle(Len(txs) + 1)>>
        /\ last' = Call("Begin", NilUUID, dbRes, nextId, <<>>,
                        <<[call |-> "Begin", on |-> dbHolder[1].dbConnection]>>)
        /\ hist' = [hist EXCEPT !.opener = nextId]
        /\ dbAns' = <<dbRes>>
        /\ UNCHANGED rollbacked
    ELSE
        /\ nextId' = nextId + 1
        /\ last' = Call("Begin", NilUUID, "nil", JoinedId(nextId), <<>>, <<>>)
        /\ hist' = [hist EXCEPT !.nested = @ \cup {JoinedId(nextId)}]
        /\ dbAns' = <<>>
        /\ UNCHANGED <<tx, transactionUUID, rollbacked, txs>>

\* Provider
Provider ==
    /\ last' = Call("Provider", NilUUID, "nil", NilUUID,
                    IF wasRollbacked THEN <<>>
                    ELSE IF inTransaction THEN tx
                    ELSE providerWithoutTransaction,
                    <<>>)
    /\ dbAns' = <<>>
    /\ UNCHANGED <<tx, transactionUUID, rollbacked, nextId, txs, hist>>

\* faulty variant: without a transaction Commit answers nil, as Rollback does
CommitMut(id, dbRes) ==
    IF wasRollbacked THEN Refuse("Commit", id, ErrTxWasRollbacked)
    ELSE IF ~inTransaction THEN Refuse("Commit", id, "nil")
    ELSE IF NotOwner(id) THEN Refuse("Commit", id, "nil")
    ELSE
        /\ txs' = [txs EXCEPT ![tx[1].n].commits = @ + 1]
        /\ last' = Call("Commit", id, HandleError(tx[1].n, dbRes), NilUUID, <<>>,
                        <<[call |-> "Commit", on |-> tx[1]]>>)
        /\ dispose
        /\ hist' = Finalized(hist)
        /\ dbAns' = Answer(tx[1].n, dbRes)
        /\ UNCHANGED <<rollbacked, nextId>>

\* faulty variant: dispose runs only after a commit that succeeded
CommitKeepMut(id, dbRes) ==
    IF wasRollbacked THEN Refuse("Commit", id, ErrTxWasRollbacked)
    ELSE IF ~inTransaction THEN Refuse("Commit", id, ErrNotInTransaction)
    ELSE IF NotOwner(id) THEN Refuse("Commit", id, "nil")
    ELSE
        /\ txs' = [txs EXCEPT ![tx[1].n].commits = @ + 1]
        /\ last' = Call("Commit", id, HandleError(tx[1].n, dbRes), NilUUID, <<>>,
                        <<[call |-> "Commit", on |-> tx[1]]>>)
        /\ IF HandleError(tx[1].n, dbRes) = "nil"
           THEN dispose /\ hist' = Finalized(hist)
           ELSE UNCHANGED <<tx, transactionUUID, hist>>
        /\ dbAns' = Answer(tx[1].n, dbRes)
        /\ UNCHANGED <<rollbacked, nextId>>

\* Commit; dbRes is the database's answer to the commit
Commit(id, dbRes) ==
    IF wasRollbacked THEN Refuse("Commit", id, ErrTxWasRollbacked)
    ELSE IF ~inTransaction THEN Refuse("Commit", id, ErrNotInTransaction)
    ELSE IF NotOwner(id) THEN Refuse("Commit", id, "nil")
    ELSE
        /\ txs' = [txs EXCEPT ![tx[1].n].commits = @ + 1]
        /\ last' = Call("Commit", id, HandleError(tx[1].n, dbRes), NilUUID, <<>>,
                        <<[call |-> "Commit", on |-> tx[1]]>>)
        /\ dispose
        /\ hist' = Finalized(hist)
        /\ dbAns' = Answer(tx[1].n, dbRes)
        /\ UNCHANGED <<rollbacked, nextId>>

\* faulty variant: the deferred disposeAfterRollback is registered before the
\* test for a transaction, so a rollback with nothing to roll back marks the context
RollbackMut(dbRes) ==
    IF wasRollbacked THEN Refuse("Rollback", NilUUID, ErrTxWasRollbacked)
    ELSE IF ~inTransaction THEN
        /\ last' = Call("Rollback", NilUUID, "nil", NilUUID, <<>>, <<>>)
        /\ disposeAfterRollback
        /\ dbAns' = <<>>
        /\ UNCHANGED <<nextId, txs, hist>>
    ELSE
        /\ txs' = [txs EXCEPT ![tx[1].n].rollbacks = @ + 1]
        /\ last' = Call("Rollback", NilUUID, HandleError(tx[1].n, dbRes), NilUUID, <<>>,
                        <<[call |-> "Rollback", on |-> tx[1]]>>)
        /\ disposeAfterRollback
        /\ hist' = [Finalized(hist) EXCEPT !.rolledBack = TRUE]
        /\ dbAns' = Answer(tx[1].n, dbRes)
        /\ UNCHANGED nextId

\* faulty variant: disposeAfterRollback runs only after a rollback that succeeded
RollbackKeepMut(dbRes) ==
    IF wasRollbacked THEN Refuse("Rollback", NilUUID, ErrTxWasRollbacked)
    ELSE IF ~inTransaction THEN Refuse("Rollback", NilUUID, "nil")
    ELSE
        /\ txs' = [txs EXCEPT ![tx[1].n].rollbacks = @ + 1]
        /\ last' = Call("Rollback", NilUUID, HandleError(tx[1].n, dbRes), NilUUID, <<>>,
                        <<[call |-> "Rollback", on |-> tx[1]]>>)
        /\ IF HandleError(tx[1].n, dbRes) = "nil"
           THEN disposeAfterRollback /\ hist' = [Finalized(hist) EXCEPT !.rolledBack = TRUE]
           ELSE UNCHANGED <<tx, transactionUUID, rollbacked, hist>>
        /\ dbAns' = Answer(tx[1].n, dbRes)
        /\ UNCHANGED nextId

\* Rollback; dbRes is the database's answer to the rollback
Rollback(dbRes) ==
    IF wasRollbacked THEN Refuse("Rollback", NilUUID, ErrTxWasRollbacked)
    ELSE IF ~inTransaction THEN Refuse("Rollback", NilUUID, "nil")
    ELSE
        /\ txs' = [txs EXCEPT ![tx[1].n].rollbacks = @ + 1]
        /\ last' = Call("Rollback", NilUUID, HandleError(tx[1].n, dbRes), NilUUID, <<>>,
                        <<[call |-> "Rollback", on |-> tx[1]]>>)
        /\ disposeAfterRollback
        /\ hist' = [Finalized(hist) EXCEPT !.rolledBack = TRUE]
        /\ dbAns' = Answer(tx[1].n, dbRes)
        /\ UNCHANGED nextId

----------------------------------------------------------------------------
(* The ambient context: context.Context values and GetTransactionContext *)

TransactionContextKey == "TransactionContextKey"

\* context.Background(): no parent, no value
Background == [parent |-> 0, key |-> "none", val |-> [type |-> "none", n |-> 0]]

\* context.WithValue(ambient[c], key, val)
WithValue(c, key, val) == [parent |-> c, key |-> key, val |-> val]

\* ctx.Value(key): the value of the nearest context up the chain that holds the key
RECURSIVE Value(_, _, _)
Value(amb, c, key) ==
    IF amb[c].key = key THEN amb[c].val
    ELSE IF amb[c].parent = 0 THEN [type |-> "none", n |-> 0]
    ELSE Value(amb, amb[c].parent, key)

\* faulty variant: the context carried is never recognized
FoundMut(v) == FALSE

\* the type assertion ".(ITransactionContext)" on the value found
Found(v) == v.type = "ITransactionContext"

\* newTransactionContext(logger, dbHolder): only logger and dbHolder are set
newTransactionContext ==
    [tx |-> <<>>, transactionUUID |-> <<>>, rollbacked |-> FALSE, dbHolder |-> dbHolder]

\* no context.Context but the background, no transactionContext, no call yet
InitAmbient ==
    /\ ambient = <<Background>>
    /\ txcs = <<>>
    /\ lastGet = [ctx |-> 0, txc |-> 0, out |-> 0, made |-> 1,
                  pre |-> [ambient |-> <<Background>>, txcs |-> <<>>]]

\* getTransactionContextWithDBHolder(ambient[c])
GetTransactionContext(c) ==
    LET v == Value(ambient, c, TransactionContextKey) IN
    IF ~Found(v) THEN
        /\ Len(ambient) < 1 + MaxCtx
        /\ txcs' = Append(txcs, newTransactionContext)
        /\ ambient' = Append(ambient,
                WithValue(c, TransactionContextKey,
                          [type |-> "ITransactionContext", n |-> Len(txcs) + 1]))
        /\ lastGet' = [ctx |-> c, txc |-> Len(txcs) + 1, out |-> Len(ambient) + 1,
                       made |-> Len(ambient) + 1,
                       pre |-> [ambient |-> ambient, txcs |-> txcs]]
    ELSE
        /\ lastGet' = [ctx |-> c, txc |-> v.n, out |-> c, made |-> Len(ambient),
                       pre |-> [ambient |-> ambient, txcs |-> txcs]]
        /\ UNCHANGED <<ambient, txcs>>

\* a function is called with a context and asks for the transaction context
AmbGet ==
    /\ \E c \in 1..Len(ambient) : GetTransactionContext(c)
    /\ UNCHANGED <<ctxVars, chainVars, holderVars>>

\* application code derives a context holding a value of its own under another key
AmbDerive ==
    /\ Len(ambient) < 1 + MaxCtx
    /\ \E c \in 1..Len(ambient) :
         ambient' = Append(ambient, WithValue(c, "other", [type |-> "other", n |-> 0]))
    /\ UNCHANGED <<txcs, lastGet, ctxVars, chainVars, holderVars>>

\* application code stores something that is no ITransactionContext under the key
AmbForeign ==
    /\ Len(ambient) < 1 + MaxCtx
    /\ \E c \in 1..Len(ambient) :
         ambient' = Append(ambient,
                WithValue(c, TransactionContextKey, [type |-> "other", n |-> 0]))
    /\ UNCHANGED <<txcs, lastGet, ctxVars, chainVars, holderVars>>

NextAmbient == AmbGet \/ AmbDerive \/ AmbForeign

----------------------------------------------------------------------------
(* Any caller, any order: the calls application code can make on one context *)

\* the holder as NewDBHolderInstance(DbConfig) leaves it
HolderReady ==
    /\ hpc = [t \in 1..NThreads |-> "idle"]
    /\ hconn = [t \in 1..NThreads |-> <<>>]
    /\ hret = [t \in 1..NThreads |-> <<>>]
    /\ hcalls = [t \in 1..NThreads |-> 0]
    /\ onceDone = TRUE
    /\ onceM = 0
    /\ dbHolder = <<[dbConnection |-> ConnHandle(DbConfig)]>>
    /\ retry = 0
    /\ opened = 1
    /\ initBy = {}
    /\ hslow = {}
    /\ fatal = FALSE
    /\ openLog = <<"ok">>
    /\ openRet = <<[db |-> ConnHandle(DbConfig), err |-> "nil"]>>

\* newTransactionContext: no handle, no token, not rolled back
NewContext ==
    /\ tx = <<>>
    /\ transactionUUID = <<>>
    /\ rollbacked = FALSE
    /\ nextId = 1
    /\ txs = <<>>
    /\ hist = [opener |-> NilUUID, nested |-> {}, old |-> {}, rolledBack |-> FALSE]
    /\ dbAns = <<>>
    /\ last = [op |-> "none", arg |-> NilUUID, err |-> "nil", id |-> NilUUID, db |-> <<>>,
               calls |-> <<>>,
               pre |-> [tx |-> <<>>, uuid |-> <<>>, rollbacked |-> FALSE, state |-> "Idle",
                        hist |-> [opener |-> NilUUID, nested |-> {}, old |-> {},
                                  rolledBack |-> FALSE],
                        txs |-> <<>>]]

Init ==
    /\ NewContext
    /\ HolderReady
    /\ InitAmbient
    /\ stack = <<>>
    /\ chainOk = TRUE

SpecAmbient == Init /\ [][NextAmbient]_vars

\* uuid.NewRandom() can still hand out a uuid within the bound
CanBegin == nextId <= MaxTokens \/ wasRollbacked

DoBegin ==
    /\ CanBegin
    /\ \E rnd \in {"nil", ErrRandom}, dbRes \in DbResults : Begin(rnd, dbRes)
    /\ UNCHANGED <<chainVars, holderVars, ambVars>>

DoProvider ==
    /\ Provider
    /\ UNCHANGED <<chainVars, holderVars, ambVars>>

DoCommit ==
    /\ \E id \in Tokens, dbRes \in DbResults : Commit(id, dbRes)
    /\ UNCHANGED <<chainVars, holderVars, ambVars>>

DoRollback ==
    /\ \E dbRes \in DbResults : Rollback(dbRes)
    /\ UNCHANGED <<chainVars, holderVars, ambVars>>

Next == DoBegin \/ DoProvider \/ DoCommit \/ DoRollback

Spec == Init /\ [][Next]_vars

----------------------------------------------------------------------------
(* Properties of the calls on one context *)

\* what the last call left of the fields is what it found
FieldsKept ==
    /\ tx = last.pre.tx
    /\ transactionUUID = last.pre.uuid
    /\ rollbacked = last.pre.rollbacked

\* the last call made no call on a database handle
NoDbCall == last.calls = <<>> /\ txs = last.pre.txs

BeginOnActive == last.op = "Begin" /\ last.pre.state = "Active"

\* C1, as stated: Begin on an Active context that returns without error returns a
\* token equal to the stored owning token (the one the opening Begin returned).
C1_Original ==
    (BeginOnActive /\ last.err = "nil") => <<last.id>> = last.pre.uuid

\* C1, amended: Begin on an Active context fails only when the uuid source fails;
\* otherwise it returns a newly generated token, different from the stored owning
\* token and from every token returned before, and the stored owning token stays
\* the one the opening Begin returned; no transaction is opened.
C1_Amended ==
    BeginOnActive =>
        /\ last.err \in {"nil", ErrRandom}
        /\ last.err = "nil" =>
              /\ last.id # NilUUID
              /\ <<last.id>> # last.pre.uuid
              /\ last.id \notin Returned(last.pre.hist)
        /\ transactionUUID = last.pre.uuid
        /\ transactionUUID = <<last.pre.hist.opener>>
        /\ FieldsKept
        /\ NoDbCall

C1_Witness == BeginOnActive /\ last.err = "nil" /\ last.pre.hist.nested # {}

CommitByOther ==
    last.op = "Commit" /\ last.pre.state = "Active" /\ <<last.arg>> # last.pre.uuid

\* C2: Commit on an Active context with a token other than the stored owning token
\* returns nil, makes no call on the database, and leaves handle, token and
\* rolled-back flag as they were: the context stays Active.
C2_NonOwnerCommitNoOp ==
    CommitByOther =>
        /\ last.err = "nil"
        /\ NoDbCall
        /\ FieldsKept
        /\ State = "Active"

C2_Witness == CommitByOther /\ last.arg \in last.pre.hist.nested

\* C3: a Commit reaches the database only with the token returned by the Begin that
\* moved the context from Idle to Active; with a token a nested Begin returned, or
\* one returned for an earlier, finalized transaction, Commit makes no database
\* call and the transaction stays open.
C3_OnlyOpenerCommits ==
    /\ (last.op = "Commit" /\ last.calls # <<>>) =>
          /\ last.arg = last.pre.hist.opener
          /\ last.arg # NilUUID
    /\ (last.op = "Commit" /\ last.pre.state = "Active"
          /\ last.arg \in last.pre.hist.nested \cup last.pre.hist.old) =>
          /\ NoDbCall
          /\ FieldsKept
          /\ State = "Active"
          /\ txs[tx[1].n].commits = 0 /\ txs[tx[1].n].rollbacks = 0

C3_Witness ==
    /\ last.op = "Commit" /\ last.pre.state = "Active"
    /\ last.arg \in last.pre.hist.old
    /\ last.pre.hist.nested # {}
    /\ txs[tx[1].n].err = "nil"

CommitByOwner ==
    last.op = "Commit" /\ last.pre.state = "Active" /\ <<last.arg>> = last.pre.uuid

\* C5: Commit on an Active context with the owning token makes exactly one Commit
\* call, on the stored handle; when that commit succeeds it returns nil and the
\* context is Idle (no handle, no token, not rolled back), and a Begin on a
\* context that is Idle again opens a new transaction.
C5_OwnerCommit ==
    /\ CommitByOwner =>
          /\ last.calls = <<[call |-> "Commit", on |-> last.pre.tx[1]]>>
          /\ txs = [last.pre.txs EXCEPT ![last.pre.tx[1].n].commits = @ + 1]
          /\ txs[last.pre.tx[1].n].commits = 1
          /\ last.err = "nil" =>
                /\ tx = <<>> /\ transactionUUID = <<>> /\ ~rollbacked
                /\ State = "Idle"
    /\ (last.op = "Begin" /\ last.pre.state = "Idle" /\ last.pre.hist.old # {}
          /\ last.err # ErrRandom) =>
          /\ Len(txs) = Len(last.pre.txs) + 1
          /\ tx = <<TxHandle(Len(txs))>>
          /\ tx # <<>> /\ \A h \in 1..Len(last.pre.txs) : tx[1] # TxHandle(h)

C5_Witness == CommitByOwner /\ last.err = "nil" /\ last.pre.hist.old # {}

\* C6: Commit with any token on an Idle context fails with ErrNotInTransaction,
\* makes no call on the database and leaves the context Idle.
C6_CommitOnIdle ==
    (last.op = "Commit" /\ last.pre.state = "Idle") =>
        /\ last.err = ErrNotInTransaction
        /\ NoDbCall
        /\ FieldsKept
        /\ State = "Idle"

C6_Witness ==
    /\ last.op = "Commit" /\ last.pre.state = "Idle"
    /\ last.arg \in last.pre.hist.old
    /\ \E h \in 1..Len(txs) : txs[h].commits = 1 /\ txs[h].err = "nil"

\* C7: once a Rollback was made on an Active context, every later Begin, Commit
\* (any token) and Rollback fails with ErrTxWasRollbacked and makes no call on the
\* database.
C7_RollbackIsTerminal ==
    (last.op \in {"Begin", "Commit", "Rollback"} /\ last.pre.hist.rolledBack) =>
        /\ last.err = ErrTxWasRollbacked
        /\ NoDbCall
        /\ FieldsKept

C7_Witness ==
    /\ last.op = "Commit" /\ last.pre.hist.rolledBack
    /\ last.arg \in last.pre.hist.old
    /\ Cardinality(last.pre.hist.old) > 1

C9_Provider ==
    last.op = "Provider" =>
        /\ last.pre.state = "Active" => (last.db = last.pre.tx /\ last.db # <<>>)
        /\ last.pre.state = "Idle" => last.db = <<ConnHandle(DbConfig)>>
        /\ last.pre.state = "RolledBack" => last.db = <<>>
        /\ FieldsKept
        /\ NoDbCall

C9_Witness ==
    /\ last.op = "Provider" /\ last.pre.state = "Idle" /\ last.pre.hist.old # {}
    /\ last.db = <<ConnHandle(DbConfig)>>

----------------------------------------------------------------------------
(* A chain of nested functions on one context, each written as the example of
   GetTransactionContext:
       id, err := txContext.Begin(); if err != nil { return err }
       defer txContext.Rollback()
       ... operations, calls of further such functions ...
       return txContext.Commit(id)                                         *)

Top == stack[Len(stack)]

\* the caller of a function that returned err returns it too
CallerSees(st, err) ==
    IF st = <<>> \/ err = "nil" THEN st
    ELSE [st EXCEPT ![Len(st)] = [@ EXCEPT !.pc = "return", !.err = err]]

\* no failure of the database or of the uuid source so far
StillOk(err) == chainOk /\ err \notin DbErrors \cup {ErrRandom, ErrInvalidTransaction}

\* a function is entered: Begin, and on success the deferred Rollback is registered
ChainCall ==
    /\ Len(stack) < MaxDepth
    /\ IF stack = <<>> THEN TRUE ELSE Top.pc = "work"
    /\ CanBegin
    /\ \E rnd \in {"nil", ErrRandom}, dbRes \in DbResults : Begin(rnd, dbRes)
    /\ stack' = IF last'.err = "nil"
                THEN Append(stack, [id |-> last'.id, pc |-> "work", err |-> "nil"])
                ELSE CallerSees(stack, last'.err)
    /\ chainOk' = StillOk(last'.err)
    /\ UNCHANGED <<holderVars, ambVars>>

\* the function works on the database through Provider
ChainWork ==
    /\ stack # <<>> /\ Top.pc = "work"
    /\ Provider
    /\ UNCHANGED <<chainVars, holderVars, ambVars>>

\* return txContext.Commit(id): the result is Commit's
ChainCommit ==
    /\ stack # <<>> /\ Top.pc = "work"
    /\ \E dbRes \in DbResults : Commit(Top.id, dbRes)
    /\ stack' = [stack EXCEPT ![Len(stack)] = [@ EXCEPT !.pc = "return", !.err = last'.err]]
    /\ chainOk' = StillOk(last'.err)
    /\ UNCHANGED <<holderVars, ambVars>>

\* the function returns: its deferred Rollback runs, then the caller goes on
ChainReturn ==
    /\ stack # <<>> /\ Top.pc = "return"
    /\ \E dbRes \in DbResults : Rollback(dbRes)
    /\ stack' = CallerSees(SubSeq(stack, 1, Len(stack) - 1), Top.err)
    /\ chainOk' = StillOk(last'.err)
    /\ UNCHANGED <<holderVars, ambVars>>

NextChain == ChainCall \/ ChainWork \/ ChainCommit \/ ChainReturn

SpecChain == Init /\ [][NextChain]_vars

\* C4: with every function of a nested chain following the pattern and nothing
\* failing, the return of an inner function (its Commit, then its deferred
\* Rollback) neither commits nor rolls back the shared transaction, which is still
\* Active when the caller goes on, and the outermost Commit commits it once, with
\* a nil error.
C4_NestedPatternKeepsTransaction ==
    chainOk =>
        /\ (last.op = "Rollback" /\ stack # <<>>) =>
              /\ State = "Active"
              /\ NoDbCall
              /\ FieldsKept
        /\ (last.op = "Commit" /\ Len(stack) = 1) =>
              /\ last.err = "nil"
              /\ last.calls = <<[call |-> "Commit", on |-> last.pre.tx[1]]>>

----------------------------------------------------------------------------
(* NewDBHolderInstance, called by several threads, each with its own configuration
   (thread t passes configuration t).  onceDBHolder.Do(f) is sync.Once:
       if done == 0 { m.Lock(); if done == 0 { f(); done = 1 }; m.Unlock() }
   f is NewConnect(config), that is Open(config), then dbHolder = NewDBHolder(connect). *)

Threads == 1..NThreads

\* the package start: no holder, the Once not done
InitHolder ==
    /\ NewContext
    /\ InitAmbient
    /\ stack = <<>>
    /\ chainOk = TRUE
    /\ hpc = [t \in Threads |-> "idle"]
    /\ hconn = [t \in Threads |-> <<>>]
    /\ hret = [t \in Threads |-> <<>>]
    /\ hcalls = [t \in Threads |-> 0]
    /\ onceDone = FALSE
    /\ onceM = 0
    /\ dbHolder = <<>>
    /\ retry = 0
    /\ opened = 0
    /\ initBy = {}
    /\ hslow = {}
    /\ fatal = FALSE
    /\ openLog = <<>>
    /\ openRet = <<>>

\* faulty variant: no mutual exclusion around the initializer
MutexFreeMut == TRUE

\* m.Lock() can be taken
MutexFree == onceM = 0

Goto(t, pc) == hpc' = [hpc EXCEPT ![t] = pc]

\* a thread calls NewDBHolderInstance(config)
HCall(t) ==
    /\ ~fatal /\ hpc[t] = "idle" /\ hcalls[t] < MaxCalls
    /\ hcalls' = [hcalls EXCEPT ![t] = @ + 1]
    /\ Goto(t, "do")
    /\ UNCHANGED <<hconn, hret, onceDone, onceM, dbHolder, retry, opened, initBy, hslow, fatal>>
    /\ UNCHANGED <<openLog, openRet>>
    /\ UNCHANGED <<ctxVars, chainVars, ambVars>>

\* Do: the test of done without the mutex
HDo(t) ==
    /\ ~fatal /\ hpc[t] = "do"
    /\ IF onceDone THEN Goto(t, "ret") /\ UNCHANGED hslow
       ELSE Goto(t, "lock") /\ hslow' = hslow \cup {t}
    /\ UNCHANGED <<hconn, hret, hcalls, onceDone, onceM, dbHolder, retry, opened, initBy, fatal>>
    /\ UNCHANGED <<openLog, openRet>>
    /\ UNCHANGED <<ctxVars, chainVars, ambVars>>

\* doSlow: m.Lock(), then the second test of done; the initializer starts with Open's loop
HLock(t) ==
    /\ ~fatal /\ hpc[t] = "lock" /\ MutexFree
    /\ onceM' = t
    /\ IF onceDone THEN Goto(t, "unlock") /\ UNCHANGED <<retry, initBy, openLog, openRet>>
       ELSE /\ Goto(t, "open")
            /\ retry' = 0 /\ openLog' = <<>> /\ openRet' = <<>>
            /\ initBy' = initBy \cup {t}
    /\ UNCHANGED <<hconn, hret, hcalls, onceDone, dbHolder, opened, hslow, fatal>>
    /\ UNCHANGED <<ctxVars, chainVars, ambVars>>

\* faulty variant: the loop test is off by one
RetriesLeftMut == retry <= defaultConnectionNumberOfRetries

\* Open: the loop test "retry < defaultConnectionNumberOfRetries"
RetriesLeft == retry < defaultConnectionNumberOfRetries

\* Open: one pass of the loop; gorm.Open succeeds and Open returns (db, nil), which
\* NewConnect hands on, or it fails and the loop goes on after the sleep
HOpen(t) ==
    /\ ~fatal /\ hpc[t] = "open" /\ RetriesLeft
    /\ \E ok \in BOOLEAN :
         IF ok THEN /\ opened' = opened + 1
                    /\ openLog' = Append(openLog, "ok")
                    /\ openRet' = <<[db |-> ConnHandle(t), err |-> "nil"]>>
                    /\ hconn' = [hconn EXCEPT ![t] = <<ConnHandle(t)>>]
                    /\ Goto(t, "store")
                    /\ UNCHANGED retry
         ELSE /\ retry' = retry + 1
              /\ openLog' = openLog \o <<"fail", "sleep">>
              /\ UNCHANGED <<opened, hconn, hpc, openRet>>
    /\ UNCHANGED <<hret, hcalls, onceDone, onceM, dbHolder, initBy, hslow, fatal>>
    /\ UNCHANGED <<ctxVars, chainVars, ambVars>>

\* faulty variant: after the last attempt Open returns what it has, and the
\* initializer goes on with the handle of the attempt that failed
HFatalMut(t) ==
    /\ ~fatal /\ hpc[t] = "open" /\ ~RetriesLeft
    /\ openRet' = <<[db |-> ConnHandle(t), err |-> "db error A"]>>
    /\ hconn' = [hconn EXCEPT ![t] = <<ConnHandle(t)>>]
    /\ Goto(t, "store")
    /\ UNCHANGED <<hret, hcalls, onceDone, onceM, dbHolder, retry, opened, initBy, hslow, fatal>>
    /\ UNCHANGED <<openLog, ctxVars, chainVars, ambVars>>

\* Open: the loop is over without a connection, logger.Fatalf ends the process
HFatal(t) ==
    /\ ~fatal /\ hpc[t] = "open" /\ ~RetriesLeft
    /\ fatal' = TRUE
    /\ UNCHANGED <<hpc, hconn, hret, hcalls, onceDone, onceM, dbHolder, retry, opened, initBy, hslow>>
    /\ UNCHANGED <<openLog, openRet>>
    /\ UNCHANGED <<ctxVars, chainVars, ambVars>>

\* dbHolder = NewDBHolder(connect)
HStore(t) ==
    /\ ~fatal /\ hpc[t] = "store"
    /\ dbHolder' = <<[dbConnection |-> hconn[t][1]]>>
    /\ Goto(t, "done")
    /\ UNCHANGED <<hconn, hret, hcalls, onceDone, onceM, retry, opened, initBy, hslow, fatal>>
    /\ UNCHANGED <<openLog, openRet>>
    /\ UNCHANGED <<ctxVars, chainVars, ambVars>>

\* the initializer returned: done = 1
HDone(t) ==
    /\ ~fatal /\ hpc[t] = "done"
    /\ onceDone' = TRUE
    /\ Goto(t, "unlock")
    /\ UNCHANGED <<hconn, hret, hcalls, onceM, dbHolder, retry, opened, initBy, hslow, fatal>>
    /\ UNCHANGED <<openLog, openRet>>
    /\ UNCHANGED <<ctxVars, chainVars, ambVars>>

\* m.Unlock()
HUnlock(t) ==
    /\ ~fatal /\ hpc[t] = "unlock"
    /\ onceM' = 0
    /\ Goto(t, "ret")
    /\ UNCHANGED <<hconn, hret, hcalls, onceDone, dbHolder, retry, opened, initBy, hslow, fatal>>
    /\ UNCHANGED <<openLog, openRet>>
    /\ UNCHANGED <<ctxVars, chainVars, ambVars>>

\* return dbHolder
HReturn(t) ==
    /\ ~fatal /\ hpc[t] = "ret"
    /\ hret' = [hret EXCEPT ![t] = Append(@, dbHolder)]
    /\ Goto(t, "idle")
    /\ UNCHANGED <<hconn, hcalls, onceDone, onceM, dbHolder, retry, opened, initBy, hslow, fatal>>
    /\ UNCHANGED <<openLog, openRet>>
    /\ UNCHANGED <<ctxVars, chainVars, ambVars>>

NextHolder ==
    \/ \E t \in Threads : HCall(t)
    \/ \E t \in Threads : HDo(t)
    \/ \E t \in Threads : HLock(t)
    \/ \E t \in Threads : HOpen(t)
    \/ \E t \in Threads : HFatal(t)
    \/ \E t \in Threads : HStore(t)
    \/ \E t \in Threads : HDone(t)
    \/ \E t \in Threads : HUnlock(t)
    \/ \E t \in Threads : HReturn(t)

SpecHolder == InitHolder /\ [][NextHolder]_vars

\* the values the calls of NewDBHolderInstance have returned
HolderReturns == UNION {{hret[t][i] : i \in 1..Len(hret[t])} : t \in Threads}

\* C10: whatever the number of threads calling NewDBHolderInstance for the first
\* time at once, each with its own configuration, at most one initializer runs
\* and at most one connection is opened; every call that returns, returns the one
\* holder, initialized, holding the one connection opened, which was opened with
\* the configuration of the thread whose initializer ran.
C10_Singleton ==
    /\ opened <= 1
    /\ Cardinality(initBy) <= 1
    /\ Cardinality(HolderReturns) <= 1
    /\ \A h \in HolderReturns :
         /\ h # <<>>
         /\ h = dbHolder
         /\ opened = 1
         /\ \E t \in initBy : h[1].dbConnection = ConnHandle(t)

C10_Witness ==
    /\ hslow = Threads
    /\ initBy = {NThreads}
    /\ retry > 0
    /\ \A t \in Threads : Len(hret[t]) = MaxCalls

----------------------------------------------------------------------------
(* Further properties of the calls on one context *)

\* C14: Commit and Rollback on a context with no active transaction both return
\* ErrNotInTransaction.
C14_NoTransactionIsAnError ==
    (last.op \in {"Commit", "Rollback"} /\ last.pre.state = "Idle") =>
        last.err = ErrNotInTransaction

\* C15: between calls, whatever the calls and the database's answers were, handle
\* and token are both present or both absent, and both absent once the context is
\* marked rolled back: the context is Idle, Active or RolledBack.
C15_HandleAndTokenTogether ==
    /\ (tx = <<>>) <=> (transactionUUID = <<>>)
    /\ rollbacked => (tx = <<>> /\ transactionUUID = <<>>)
    /\ State \in {"Idle", "Active", "RolledBack"}

C15_Witness ==
    /\ last.op = "Begin" /\ last.err \in DbErrors
    /\ \E h \in 1..Len(last.pre.txs) : last.pre.txs[h].commits = 1 /\ dbAns # <<>>

\* C16: no call changes the rolled-back flag from set to cleared, and the flag
\* becomes set only by a Rollback made while the context is Active.
C16_FlagMonotonic ==
    [][ /\ rollbacked => rollbacked'
        /\ (~rollbacked /\ rollbacked') =>
              (last'.op = "Rollback" /\ last'.pre.state = "Active") ]_vars

C16_Witness == rollbacked /\ last.op = "Provider" /\ last.pre.rollbacked

\* the owner's Commit reached the database and the database refused it
CommitFailed ==
    /\ last.op = "Commit" /\ last.pre.state = "Active" /\ <<last.arg>> = last.pre.uuid
    /\ dbAns # <<>> /\ dbAns[1] # "nil"

\* C17: when the owner's Commit reaches the database and the commit fails, Commit
\* returns the database's error as it is, after one Commit call only, and handle
\* and token are cleared without the context being marked rolled back: it is Idle,
\* where a repeated Commit with the former token fails with ErrNotInTransaction.
C17_FailedCommit ==
    /\ CommitFailed =>
          /\ last.err = dbAns[1]
          /\ last.err \in DbErrors
          /\ last.calls = <<[call |-> "Commit", on |-> last.pre.tx[1]]>>
          /\ txs[last.pre.tx[1].n].commits = 1
          /\ tx = <<>> /\ transactionUUID = <<>> /\ ~rollbacked
          /\ State = "Idle"
    /\ (last.op = "Commit" /\ last.pre.state = "Idle" /\ last.arg \in last.pre.hist.old) =>
          /\ last.err = ErrNotInTransaction
          /\ last.calls = <<>>

C17_Witness == CommitFailed /\ last.err = "db error B"

RollbackOnActive == last.op = "Rollback" /\ last.pre.state = "Active"

\* C18: Rollback on an Active context makes exactly one Rollback call, on the
\* stored handle, and whether it succeeds or fails handle and token are cleared
\* and the context is marked rolled back; the database's error is what Rollback
\* returns.
C18_RollbackAlwaysDisposes ==
    RollbackOnActive =>
        /\ last.calls = <<[call |-> "Rollback", on |-> last.pre.tx[1]]>>
        /\ txs = [last.pre.txs EXCEPT ![last.pre.tx[1].n].rollbacks = @ + 1]
        /\ txs[last.pre.tx[1].n].rollbacks = 1
        /\ tx = <<>> /\ transactionUUID = <<>> /\ rollbacked
        /\ State = "RolledBack"
        /\ dbAns # <<>> => last.err = dbAns[1]
        /\ last.err = "nil" => dbAns = <<"nil">>

C18_Witness == RollbackOnActive /\ dbAns # <<>> /\ last.err \in DbErrors

\* the handles that hold a transaction the database has opened and nobody ended
OpenTransactions ==
    {h \in 1..Len(txs) : txs[h].err = "nil" /\ txs[h].commits = 0 /\ txs[h].rollbacks = 0}

\* C19: Begin on an Active context asks the database for nothing and leaves the
\* stored handle, the stored token and the rolled-back flag as they were; the
\* context never holds more than one open transaction, and it is the stored one.
C19_NestedBeginOpensNothing ==
    /\ (last.op = "Begin" /\ last.pre.state = "Active") =>
          /\ last.calls = <<>>
          /\ dbAns = <<>>
          /\ Len(txs) = Len(last.pre.txs)
          /\ FieldsKept
    /\ Cardinality(OpenTransactions) <= 1
    /\ \A h \in OpenTransactions : tx = <<TxHandle(h)>>

C19_Witness ==
    /\ last.op = "Begin" /\ last.pre.state = "Active"
    /\ Cardinality(last.pre.hist.nested) >= 2
    /\ txs[tx[1].n].err = "nil"

\* C20: a Begin on an Idle context that fails because the database cannot open the
\* transaction leaves the context as it was, Idle, with no handle and no token.
C20_FailedBeginKeepsIdle ==
    (last.op = "Begin" /\ last.pre.state = "Idle" /\ last.err \in DbErrors) =>
        /\ FieldsKept
        /\ State = "Idle"

----------------------------------------------------------------------------
(* Properties of Open, as the initializer of the holder runs it *)

\* the thread in Open keeps running: the loop body and the end of the loop are
\* steps of one goroutine, and time.Sleep returns
SpecHolderFair ==
    /\ SpecHolder
    /\ WF_vars(\E t \in Threads : HOpen(t))
    /\ WF_vars(\E t \in Threads : HFatal(t))

\* the attempts (calls of gorm.Open) Open has made, and those that failed
Attempts == Cardinality({i \in 1..Len(openLog) : openLog[i] # "sleep"})
Fails == Cardinality({i \in 1..Len(openLog) : openLog[i] = "fail"})

\* Open is running
InOpen == ~fatal /\ \E t \in Threads : hpc[t] = "open"

\* at most 8 attempts; an attempt after the first follows a failed attempt and the
\* sleep after it; a success is the last thing Open does, and it returns that
\* attempt's handle with a nil error
OpenLoopShape ==
    /\ Attempts <= defaultConnectionNumberOfRetries
    /\ \A i \in 1..Len(openLog) :
         /\ (openLog[i] # "sleep" /\ i > 1) =>
               (i > 2 /\ openLog[i - 1] = "sleep" /\ openLog[i - 2] = "fail")
         /\ openLog[i] = "sleep" => (i > 1 /\ openLog[i - 1] = "fail")
         /\ openLog[i] = "ok" => i = Len(openLog)
    /\ openRet # <<>> <=> (openLog # <<>> /\ openLog[Len(openLog)] = "ok")
    /\ openRet # <<>> =>
         /\ openRet[1].err = "nil"
         /\ \E t \in initBy : openRet[1].db = ConnHandle(t) /\ hconn[t] = <<openRet[1].db>>
    /\ InOpen => (Attempts = retry /\ Fails = retry)

\* C11: Open makes at most 8 attempts, attempt k+1 only after attempt k failed and
\* the delay was waited, returns the handle of the first attempt that succeeds
\* with a nil error and makes no attempt after it; and Open always comes to an end.
C11_OpenRetriesAndEnds == []OpenLoopShape /\ (InOpen ~> ~InOpen)

C11_Witness ==
    /\ openRet # <<>>
    /\ Attempts = defaultConnectionNumberOfRetries
    /\ Fails = defaultConnectionNumberOfRetries - 1

----------------------------------------------------------------------------
(* Properties of GetTransactionContext *)

\* the last call found a transaction context in the context it was given
GetFound ==
    Value(lastGet.pre.ambient, lastGet.ctx, TransactionContextKey).type = "ITransactionContext"

\* C13: GetTransactionContext makes a transaction context only when the context
\* given carries none, and then returns a new, Idle one and a derived context
\* carrying it; given a context that carries one it returns that one and the
\* context given, so a nested call handed the derived context (or a context
\* derived from it) works on the same transaction context.
C13_GetOrCreate ==
    lastGet.ctx # 0 =>
        /\ GetFound =>
              /\ lastGet.txc = Value(lastGet.pre.ambient, lastGet.ctx, TransactionContextKey).n
              /\ lastGet.out = lastGet.ctx
              /\ txcs = lastGet.pre.txcs
              /\ lastGet.made = Len(lastGet.pre.ambient)
        /\ ~GetFound =>
              /\ Len(txcs) = Len(lastGet.pre.txcs) + 1
              /\ lastGet.txc = Len(txcs)
              /\ StateOf(txcs[lastGet.txc].tx, txcs[lastGet.txc].transactionUUID,
                         txcs[lastGet.txc].rollbacked) = "Idle"
              /\ lastGet.made = Len(lastGet.pre.ambient) + 1
              /\ lastGet.out = lastGet.made
              /\ ambient[lastGet.out].parent = lastGet.ctx
        /\ Value(ambient, lastGet.out, TransactionContextKey).type = "ITransactionContext"
        /\ Value(ambient, lastGet.out, TransactionContextKey).n = lastGet.txc
        /\ lastGet.txc \in 1..Len(txcs)
        /\ SubSeq(ambient, 1, Len(lastGet.pre.ambient)) = lastGet.pre.ambient

C13_Witness ==
    /\ lastGet.ctx # 0 /\ GetFound
    /\ ambient[lastGet.ctx].key = "other"
    /\ Len(txcs) >= 2

----------------------------------------------------------------------------
(* Properties of the handles over a whole run of calls *)

\* the Commit() and Rollback() calls made so far on handle h
FinalizingCalls(h) == txs[h].commits + txs[h].rollbacks

\* C21: over any sequence of Begin, Commit, Rollback and Provider calls on one
\* context, every transaction the context opened receives at most one finalizing
\* call: never two commits, never two rollbacks, never a commit and a rollback.
C21_AtMostOneFinalizingCall ==
    \A h \in 1..Len(txs) :
        /\ txs[h].commits <= 1
        /\ txs[h].rollbacks <= 1
        /\ FinalizingCalls(h) <= 1

\* one transaction was committed, a later one rolled back, and a further Rollback
\* was then called, which reached no handle
C21_Witness ==
    /\ \E h \in 1..Len(txs) : txs[h].err = "nil" /\ txs[h].commits = 1
    /\ \E h \in 1..Len(txs) : txs[h].err = "nil" /\ txs[h].rollbacks = 1
    /\ last.op = "Rollback" /\ last.calls = <<>>
    /\ last.pre.state = "RolledBack"

====
